---- MODULE Spec2Model ----
(***************************************************************************)
(* Model of watering-system/javascript/index.js: the schedule kept in      *)
(* SCHEDULE and the pair of `later` timers kept in `intervals`, the pump   *)
(* and its delayed flow checks (setTimeout chains), and the moisture       *)
(* monitor with its bounded MOISTURE list.                                 *)
(*                                                                         *)
(* Node runs every handler to completion on one thread, so each handler    *)
(* (route, timer callback) is one action.  Three time scales are kept      *)
(* apart: the wall-clock hour that `later` matches (HourTick), the         *)
(* monitor's setInterval (MonitorTick fires whenever the interval is       *)
(* armed), and the setTimeout delays of the flow checks, counted in units  *)
(* of TickMs (Tick).                                                       *)
(*                                                                         *)
(* The `later` library and the sensor drivers are not in the repository.   *)
(* later.setInterval(fn, {h: hours}) is taken to run fn once each time the *)
(* wall clock reaches an hour in its list (so an empty list never runs),   *)
(* and flow.flowRate() to answer what the counter measured since it was    *)
(* last cleared.                                                           *)
(*                                                                         *)
(* The request library and twilio are not in the repository either: a      *)
(* request of log() ends answered, answered with an error status, or not   *)
(* answered at all (LogCallback).  A failing pump.write either throws or   *)
(* answers an error status (FaultModes).                                   *)
(*                                                                         *)
(* Rates are kept in tenths (RateScale) so that 0.5 and 1 are integers.    *)
(* Object keys are modelled as the integers they denote ("6" as 6).        *)
(***************************************************************************)
EXTENDS Integers, Sequences, FiniteSets, TLC

\* ------------------------------------------------------------ constants

HoursPerDay == 24
HistoryCap == 20
SettleDelayMs == 10000
SampleWindowMs == 2000
MonitorPeriodMs == 30000
RateScale == 10
OnThreshold == 1 * RateScale
OffThreshold == RateScale \div 2

\* The time unit of Tick: every setTimeout delay of the program is a
\* multiple of the sample window.
TickMs == SampleWindowMs
SettleTicks == SettleDelayMs \div TickMs
WindowTicks == SampleWindowMs \div TickMs

\* ------------------------------------------------------------ bounds

MaxTicks == 22
MaxSoilChanges == 2
MaxWindows == 2
MaxFlow == 12
MaxDays == 1
MaxRequests == 2

\* ------------------------------------------------------------ state

VARIABLES
  running,      \* the node process is alive
  SCHEDULE,     \* key -> [on, off]
  intervals,    \* the program's array of timer handles (ids)
  timers,       \* the live `later` timers: set of [id, fn, hours]
  hour,         \* wall-clock hour of day
  due,          \* ids of live timers whose firing for this hour is pending
  day,          \* midnights passed since the schedule was last replaced
  MOISTURE,     \* the moisture list
  monitorArmed, \* the monitor's setInterval exists
  fired,        \* how many times the monitor interval has fired
  soil,         \* what moisture.value() would return now
  soilChanges,  \* how often the soil reading has changed
  taken,        \* every sample pushed so far, in order
  pump,         \* last value written to the pump pin
  timeouts,     \* pending setTimeout callbacks, in arming order
  flowRate,     \* what flow.flowRate() would return now (tenths)
  flowStarted,  \* the flow counter is counting
  requested,    \* the argument of the last updateSchedule call
  config,       \* config.json: whether the log server and twilio are set
  puts,         \* requests of log() whose callback is still to run
  texts,        \* messages of alert() whose callback is still to run
  lastOp        \* the step taken last

vars == <<running, SCHEDULE, intervals, timers, hour, due, day, MOISTURE,
          monitorArmed, fired, soil, soilChanges, taken, pump, timeouts,
          flowRate, flowStarted, requested, config, puts, texts, lastOp>>

schedVars == <<SCHEDULE, intervals, timers, requested>>
clockVars == <<hour, due, day>>
monitorVars == <<MOISTURE, monitorArmed, fired, taken>>
soilVars == <<soil, soilChanges>>
flowVars == <<flowRate, flowStarted>>
pumpVars == <<pump, timeouts>>
sinkVars == <<config, puts, texts>>

Hours == 0 .. (HoursPerDay - 1)

\* The readings the moisture sensor can give (dry, wet).
Readings == { 300, 600 }
\* No schedule, no data.
None == << >>

\* ------------------------------------------------------------ helpers

Range(s) == { s[i] : i \in DOMAIN s }

RemoveAt(s, i) == [ j \in 1 .. (Len(s) - 1) |-> IF j < i THEN s[j] ELSE s[j + 1] ]

Min(a, b) == IF a < b THEN a ELSE b

\* The step taken last: the handler that ran and what it did, in the order
\* it did it, or the passing of time or a change of the environment.
Op(name, steps) ==
  [ op |-> name, steps |-> steps, hour |-> -1, timer |-> 0,
    data |-> None, cancelled |-> {}, rate |-> -1, alerts |-> 0,
    call |-> 0, age |-> -1, own |-> TRUE, same |-> FALSE ]

\* Lines 51-53: every hour present, both flags false.
InitialSchedule == [ h \in Hours |-> [ on |-> FALSE, off |-> FALSE ] ]

\* config.json as it can be: with or without SERVER and AUTH_TOKEN, with
\* or without the twilio account.
Configs == [ server : BOOLEAN, twilio : BOOLEAN ]

\* The state after main() has run, for the settings cfg.
Started(cfg) ==
  /\ config = cfg
  /\ puts = 0
  /\ texts = 0
  /\ running = TRUE
  /\ SCHEDULE = InitialSchedule
  /\ intervals = << >>
  /\ timers = {}
  /\ hour = 0
  /\ due = {}
  /\ day = 0
  /\ MOISTURE = << >>
  /\ monitorArmed = TRUE
  /\ fired = 0
  /\ soil = 300
  /\ soilChanges = 0
  /\ taken = << >>
  /\ pump = 0
  /\ timeouts = << >>
  /\ flowRate = 0
  /\ flowStarted = FALSE
  /\ requested = None
  /\ lastOp = Op("main", << >>)

\* With neither the log server nor twilio set, log() and alert() only write
\* to the console.
Init == Started([ server |-> FALSE, twilio |-> FALSE ])

\* With any settings.
InitNotify == \E cfg \in Configs : Started(cfg)

\* log(event): console.log, and with the server set a PUT request whose
\* callback runs later.
Logged == puts' = IF config.server THEN puts + 1 ELSE puts
CanLog == config.server => puts < MaxRequests

\* alert(): console.log, and with twilio set a message whose callback runs
\* later.
Alerted(raised) == texts' = IF raised /\ config.twilio THEN texts + 1 ELSE texts
CanAlert(raised) == (raised /\ config.twilio) => texts < MaxRequests

\* ------------------------------------------------------------ monitor

\* The soil's moisture changes (environment).
SoilChange ==
  /\ running
  /\ UNCHANGED sinkVars
  /\ soilChanges < MaxSoilChanges
  /\ \E v \in Readings :
       /\ v # soil
       /\ soil' = v
  /\ soilChanges' = soilChanges + 1
  /\ lastOp' = Op("soilChange", << >>)
  /\ UNCHANGED <<running, schedVars, clockVars, monitorVars, pumpVars,
                 flowVars>>

\* PushSample trimming one entry too early (>= for >).
PushSample_TrimEarly(list, sample) ==
  LET pushed == Append(list, sample)
  IN  IF Len(pushed) >= HistoryCap THEN Tail(pushed) ELSE pushed

\* MOISTURE.push(sample); if (MOISTURE.length > 20) MOISTURE.shift().
PushSample(list, sample) ==
  LET pushed == Append(list, sample)
  IN  IF Len(pushed) > HistoryCap THEN Tail(pushed) ELSE pushed

\* The setInterval callback of monitor(), the sensor read succeeding.
MonitorTick ==
  /\ running
  /\ CanLog
  /\ Logged
  /\ UNCHANGED <<config, texts>>
  /\ monitorArmed
  /\ fired < MaxTicks
  /\ LET sample == [ value |-> soil, time |-> (fired + 1) * MonitorPeriodMs ]
     IN  /\ MOISTURE' = PushSample(MOISTURE, sample)
         /\ taken' = Append(taken, sample)
         /\ lastOp' = [ Op("monitor", << "push", "log moisture", "trim" >>)
                          EXCEPT !.data = sample ]
  /\ fired' = fired + 1
  /\ UNCHANGED <<running, schedVars, clockVars, monitorArmed, soilVars,
                 pumpVars, flowVars>>

\* The setInterval callback of monitor(), moisture.value() throwing: nothing
\* in the callback or around it catches, and node ends the process on an
\* uncaught exception.
MonitorThrow ==
  /\ running
  /\ UNCHANGED sinkVars
  /\ monitorArmed
  /\ fired < MaxTicks
  /\ running' = FALSE
  /\ fired' = fired + 1
  /\ lastOp' = Op("monitorThrow", << "uncaught exception" >>)
  /\ UNCHANGED <<schedVars, clockVars, MOISTURE, monitorArmed, taken,
                 soilVars, pumpVars, flowVars>>

\* elem(): a table row holds the time, then the value.
elem(sample) == << sample.time, sample.value >>

\* The readFile callback of GET /: the page shows MOISTURE.map(elem).
Index ==
  /\ running
  /\ UNCHANGED sinkVars
  /\ \E err \in BOOLEAN :
       lastOp' = IF err
                   THEN Op("indexError", << "console.error" >>)
                   ELSE [ Op("index", << "send" >>)
                            EXCEPT !.data = [ i \in DOMAIN MOISTURE |-> elem(MOISTURE[i]) ] ]
  /\ UNCHANGED <<running, schedVars, clockVars, monitorVars, soilVars,
                 pumpVars, flowVars>>

\* ------------------------------------------------------------ pump and flow checks

\* A pending setTimeout: the callback, the ticks left, the delay it was
\* armed with; and, to tell the timeouts apart, the turnOn/turnOff call it
\* descends from (its place, in the order of calling, among the calls with
\* a timeout pending), the ticks passed since that call, and whether the flow
\* counter is as the flow check of that call left it (no other flow check
\* has cleared it since).
Timeout(fn, delay, call, age) ==
  [ fn |-> fn, left |-> delay, delay |-> delay, call |-> call, age |-> age,
    own |-> TRUE ]

\* flow.clearFlowCounter(): the counter is no longer as the flow checks of
\* the windows in flight left it.
Cleared(pending) ==
  [ i \in DOMAIN pending |->
      IF pending[i].fn \in { "flowOnTimeout", "flowOffTimeout" }
        THEN [ pending[i] EXCEPT !.own = FALSE ]
        ELSE pending[i] ]

\* The place of a new turnOn/turnOff call: behind the calls with a timeout
\* pending, each of which has one.
NewCall(pending) == Len(pending) + 1

\* The timeouts left pending when the last timeout of call k has run: the
\* calls behind k move up one place.
Settled(pending, k) ==
  [ i \in DOMAIN pending |->
      IF pending[i].call > k
        THEN [ pending[i] EXCEPT !.call = pending[i].call - 1 ]
        ELSE pending[i] ]

\* turnOn arming no second flow check while one of its own is pending.
turnOn_Coalesced(pending) ==
  [ pump |-> 1,
    call |-> NewCall(pending),
    timeouts |-> IF \E i \in DOMAIN pending : pending[i].fn = "checkFlowOn"
                   THEN pending
                   ELSE Append(pending, Timeout("checkFlowOn", SettleTicks, NewCall(pending), 0)),
    steps |-> << "log on", "pump.write 1", "setTimeout checkFlowOn" >> ]

\* turnOn(): log("on"); pump.write(1); setTimeout(checkFlowOn, 10000).
turnOn(pending) ==
  [ pump |-> 1,
    call |-> NewCall(pending),
    timeouts |-> Append(pending, Timeout("checkFlowOn", SettleTicks, NewCall(pending), 0)),
    steps |-> << "log on", "pump.write 1", "setTimeout checkFlowOn" >> ]

\* turnOff arming its flow check with the delay of the sample window.
turnOff_ShortSettle(pending) ==
  [ pump |-> 0,
    call |-> NewCall(pending),
    timeouts |-> Append(pending, Timeout("checkFlowOff", WindowTicks, NewCall(pending), 0)),
    steps |-> << "log off", "pump.write 0", "setTimeout checkFlowOff" >> ]

\* turnOff(): log("off"); pump.write(0); setTimeout(checkFlowOff, 10000).
turnOff(pending) ==
  [ pump |-> 0,
    call |-> NewCall(pending),
    timeouts |-> Append(pending, Timeout("checkFlowOff", SettleTicks, NewCall(pending), 0)),
    steps |-> << "log off", "pump.write 0", "setTimeout checkFlowOff" >> ]

\* GET /on writing the pump pin itself instead of calling turnOn.
RouteOn_PumpOnly ==
  /\ running
  /\ UNCHANGED sinkVars
  /\ Len(timeouts) < MaxWindows
  /\ pump' = 1
  /\ lastOp' = Op("routeOn", << "pump.write 1", "send" >>)
  /\ UNCHANGED <<running, schedVars, clockVars, monitorVars, soilVars,
                 timeouts, flowVars>>

\* GET /on.
RouteOn ==
  /\ running
  /\ CanLog
  /\ Logged
  /\ UNCHANGED <<config, texts>>
  /\ Len(timeouts) < MaxWindows
  /\ LET r == turnOn(timeouts)
     IN  /\ pump' = r.pump
         /\ timeouts' = r.timeouts
         /\ lastOp' = [ Op("routeOn", r.steps \o << "send" >>)
                          EXCEPT !.call = r.call, !.age = 0 ]
  /\ UNCHANGED <<running, schedVars, clockVars, monitorVars, soilVars, flowVars>>

\* GET /off.
RouteOff ==
  /\ running
  /\ CanLog
  /\ Logged
  /\ UNCHANGED <<config, texts>>
  /\ Len(timeouts) < MaxWindows
  /\ LET r == turnOff(timeouts)
     IN  /\ pump' = r.pump
         /\ timeouts' = r.timeouts
         /\ lastOp' = [ Op("routeOff", r.steps \o << "send" >>)
                          EXCEPT !.call = r.call, !.age = 0 ]
  /\ UNCHANGED <<running, schedVars, clockVars, monitorVars, soilVars, flowVars>>

\* TickMs pass with no timeout due.
Tick ==
  /\ running
  /\ UNCHANGED sinkVars
  /\ timeouts # << >>
  /\ \A i \in DOMAIN timeouts : timeouts[i].left > 0
  /\ timeouts' = [ i \in DOMAIN timeouts |->
                     [ timeouts[i] EXCEPT !.left = timeouts[i].left - 1,
                                          !.age = timeouts[i].age + 1 ] ]
  /\ lastOp' = Op("tick", << >>)
  /\ UNCHANGED <<running, schedVars, clockVars, monitorVars, soilVars, pump,
                 flowVars>>

\* Node runs a due timeout; of two armed with the same delay the one armed
\* first runs first.
CanRun(i) ==
  /\ timeouts[i].left = 0
  /\ \A j \in 1 .. (i - 1) :
       ~ (timeouts[j].left = 0 /\ timeouts[j].delay = timeouts[i].delay)

\* checkFlowOn(): clear and start the counter, read it in 2000 ms.
CheckFlowOn ==
  /\ running
  /\ UNCHANGED sinkVars
  /\ \E i \in DOMAIN timeouts :
       /\ timeouts[i].fn = "checkFlowOn"
       /\ CanRun(i)
       /\ timeouts' = Append(Cleared(RemoveAt(timeouts, i)),
                             Timeout("flowOnTimeout", WindowTicks,
                                     timeouts[i].call, timeouts[i].age))
       /\ lastOp' = [ Op("checkFlowOn", << "clearFlowCounter", "startFlowCounter",
                                          "setTimeout" >>)
                        EXCEPT !.call = timeouts[i].call, !.age = timeouts[i].age ]
  /\ flowRate' = 0
  /\ flowStarted' = TRUE
  /\ UNCHANGED <<running, schedVars, clockVars, monitorVars, soilVars, pump>>

\* checkFlowOff taking the place of the flow checks in flight: their
\* timeouts are cleared.
CheckFlowOff_Aborts ==
  /\ running
  /\ UNCHANGED sinkVars
  /\ \E i \in DOMAIN timeouts :
       /\ timeouts[i].fn = "checkFlowOff"
       /\ CanRun(i)
       /\ timeouts' = Append(SelectSeq(RemoveAt(timeouts, i),
                                       LAMBDA t : t.fn \in { "checkFlowOn", "checkFlowOff" }),
                             Timeout("flowOffTimeout", WindowTicks,
                                     timeouts[i].call, timeouts[i].age))
       /\ lastOp' = [ Op("checkFlowOff", << "clearFlowCounter", "startFlowCounter",
                                          "setTimeout" >>)
                        EXCEPT !.call = timeouts[i].call, !.age = timeouts[i].age ]
  /\ flowRate' = 0
  /\ flowStarted' = TRUE
  /\ UNCHANGED <<running, schedVars, clockVars, monitorVars, soilVars, pump>>

\* checkFlowOff(): the same, for the pump turned off.
CheckFlowOff ==
  /\ running
  /\ UNCHANGED sinkVars
  /\ \E i \in DOMAIN timeouts :
       /\ timeouts[i].fn = "checkFlowOff"
       /\ CanRun(i)
       /\ timeouts' = Append(Cleared(RemoveAt(timeouts, i)),
                             Timeout("flowOffTimeout", WindowTicks,
                                     timeouts[i].call, timeouts[i].age))
       /\ lastOp' = [ Op("checkFlowOff", << "clearFlowCounter", "startFlowCounter",
                                          "setTimeout" >>)
                        EXCEPT !.call = timeouts[i].call, !.age = timeouts[i].age ]
  /\ flowRate' = 0
  /\ flowStarted' = TRUE
  /\ UNCHANGED <<running, schedVars, clockVars, monitorVars, soilVars, pump>>

\* if (flow.flowRate() < 1) { alert(); }
AlertWhenOn(rate) == rate < OnThreshold

\* AlertWhenOff with the threshold of AlertWhenOn and its comparison turned.
AlertWhenOff_Unified(rate) == rate >= OnThreshold

\* if (flow.flowRate() >= 0.5) { alert(); }
AlertWhenOff(rate) == rate >= OffThreshold

\* The timeout of checkFlowOn writing 0 to the pump when it raises the alert.
FlowOnTimeout_ShutsOff ==
  /\ running
  /\ CanAlert(AlertWhenOn(flowRate))
  /\ Alerted(AlertWhenOn(flowRate))
  /\ UNCHANGED <<config, puts>>
  /\ \E i \in DOMAIN timeouts :
       /\ timeouts[i].fn = "flowOnTimeout"
       /\ CanRun(i)
       /\ timeouts' = Settled(RemoveAt(timeouts, i), timeouts[i].call)
       /\ lastOp' = IF AlertWhenOn(flowRate)
                      THEN [ Op("flowOnTimeout", << "flowRate", "alert" >>)
                               EXCEPT !.rate = flowRate, !.alerts = 1,
                                      !.call = timeouts[i].call,
                                      !.age = timeouts[i].age,
                                      !.own = timeouts[i].own ]
                      ELSE [ Op("flowOnTimeout", << "flowRate" >>)
                               EXCEPT !.rate = flowRate,
                                      !.call = timeouts[i].call,
                                      !.age = timeouts[i].age,
                                      !.own = timeouts[i].own ]
  /\ pump' = IF AlertWhenOn(flowRate) THEN 0 ELSE pump
  /\ UNCHANGED <<running, schedVars, clockVars, monitorVars, soilVars, flowVars>>

\* The timeout of checkFlowOn.
FlowOnTimeout ==
  /\ running
  /\ CanAlert(AlertWhenOn(flowRate))
  /\ Alerted(AlertWhenOn(flowRate))
  /\ UNCHANGED <<config, puts>>
  /\ \E i \in DOMAIN timeouts :
       /\ timeouts[i].fn = "flowOnTimeout"
       /\ CanRun(i)
       /\ timeouts' = Settled(RemoveAt(timeouts, i), timeouts[i].call)
       /\ lastOp' = IF AlertWhenOn(flowRate)
                      THEN [ Op("flowOnTimeout", << "flowRate", "alert" >>)
                               EXCEPT !.rate = flowRate, !.alerts = 1,
                                      !.call = timeouts[i].call,
                                      !.age = timeouts[i].age,
                                      !.own = timeouts[i].own ]
                      ELSE [ Op("flowOnTimeout", << "flowRate" >>)
                               EXCEPT !.rate = flowRate,
                                      !.call = timeouts[i].call,
                                      !.age = timeouts[i].age,
                                      !.own = timeouts[i].own ]
  /\ UNCHANGED <<running, schedVars, clockVars, monitorVars, soilVars, pump, flowVars>>

\* The timeout of checkFlowOff.
FlowOffTimeout ==
  /\ running
  /\ CanAlert(AlertWhenOff(flowRate))
  /\ Alerted(AlertWhenOff(flowRate))
  /\ UNCHANGED <<config, puts>>
  /\ \E i \in DOMAIN timeouts :
       /\ timeouts[i].fn = "flowOffTimeout"
       /\ CanRun(i)
       /\ timeouts' = Settled(RemoveAt(timeouts, i), timeouts[i].call)
       /\ lastOp' = IF AlertWhenOff(flowRate)
                      THEN [ Op("flowOffTimeout", << "flowRate", "alert" >>)
                               EXCEPT !.rate = flowRate, !.alerts = 1,
                                      !.call = timeouts[i].call,
                                      !.age = timeouts[i].age,
                                      !.own = timeouts[i].own ]
                      ELSE [ Op("flowOffTimeout", << "flowRate" >>)
                               EXCEPT !.rate = flowRate,
                                      !.call = timeouts[i].call,
                                      !.age = timeouts[i].age,
                                      !.own = timeouts[i].own ]
  /\ UNCHANGED <<running, schedVars, clockVars, monitorVars, soilVars, pump, flowVars>>

\* The water flow changes while the counter counts (environment).
FlowChange ==
  /\ running
  /\ UNCHANGED sinkVars
  /\ flowStarted
  /\ \E r \in 0 .. MaxFlow :
       /\ r # flowRate
       /\ flowRate' = r
  /\ lastOp' = Op("flowChange", << >>)
  /\ UNCHANGED <<running, schedVars, clockVars, monitorVars, soilVars, pumpVars,
                 flowStarted>>

\* ------------------------------------------------------------ schedule

\* toInt(h): +h, the number a key denotes.
toInt(h) == h

\* onSchedule without its filter: every key is a trigger hour.
onSchedule_AllKeys(S) == { toInt(k) : k \in DOMAIN S }

\* onSchedule(): { schedules: [ { h: keys with .on, as numbers } ] }.
onSchedule(S) == { toInt(k) : k \in { h \in DOMAIN S : S[h].on } }

\* offSchedule reading the .on flag.
offSchedule_ReadsOn(S) == { toInt(k) : k \in { h \in DOMAIN S : S[h].on } }

\* offSchedule(): the same for .off.
offSchedule(S) == { toInt(k) : k \in { h \in DOMAIN S : S[h].off } }

\* ClearIntervals clearing nothing.
ClearIntervals_None(live, handles) == live

\* intervals.forEach(interval.clear()): the timers the array holds are gone.
ClearIntervals(live, handles) == { t \in live : t.id \notin Range(handles) }

\* The handle of a timer that later.setInterval creates: one not in use.
NewId(used) == CHOOSE i \in 1 .. (Cardinality(used) + 1) :
                 /\ i \notin used
                 /\ \A j \in 1 .. (i - 1) : j \in used

\* later.setInterval(fn, sched): a recurring timer that runs fn whenever the
\* wall clock reaches an hour of sched.
Interval(id, fn, hours) == [ id |-> id, fn |-> fn, hours |-> hours ]

\* updateSchedule adding the body's flags to those of the old schedule.
updateSchedule_Merge(data) ==
  LET used == { t.id : t \in timers }
      onId == NewId(used)
      offId == NewId(used \cup { onId })
  IN  /\ SCHEDULE' = [ h \in DOMAIN data |->
                         IF h \in DOMAIN SCHEDULE
                           THEN [ on |-> data[h].on \/ SCHEDULE[h].on,
                                  off |-> data[h].off \/ SCHEDULE[h].off ]
                           ELSE data[h] ]
      /\ timers' = ClearIntervals(timers, intervals)
                     \cup { Interval(onId, "turnOn", onSchedule(SCHEDULE')),
                            Interval(offId, "turnOff", offSchedule(SCHEDULE')) }
      /\ intervals' = << onId, offId >>
      /\ UNCHANGED <<timeouts, monitorArmed>>

\* updateSchedule clearing the pending timeouts too.
updateSchedule_ClearsAll(data) ==
  LET used == { t.id : t \in timers }
      onId == NewId(used)
      offId == NewId(used \cup { onId })
  IN  /\ SCHEDULE' = data
      /\ timers' = ClearIntervals(timers, intervals)
                     \cup { Interval(onId, "turnOn", onSchedule(SCHEDULE')),
                            Interval(offId, "turnOff", offSchedule(SCHEDULE')) }
      /\ intervals' = << onId, offId >>
      /\ timeouts' = << >>
      /\ UNCHANGED monitorArmed

\* updateSchedule returning at once when the body is the schedule in force.
updateSchedule_SkipsSame(data) ==
  LET used == { t.id : t \in timers }
      onId == NewId(used)
      offId == NewId(used \cup { onId })
  IN  IF data = SCHEDULE /\ intervals # << >>
        THEN UNCHANGED <<SCHEDULE, timers, intervals, timeouts, monitorArmed>>
        ELSE /\ SCHEDULE' = data
             /\ timers' = ClearIntervals(timers, intervals)
                            \cup { Interval(onId, "turnOn", onSchedule(SCHEDULE')),
                                   Interval(offId, "turnOff", offSchedule(SCHEDULE')) }
             /\ intervals' = << onId, offId >>
             /\ UNCHANGED <<timeouts, monitorArmed>>

\* updateSchedule(data): SCHEDULE = data; the timers that `intervals` holds
\* are cleared; a new pair is created from the new SCHEDULE and kept in
\* `intervals`.  The process's other timers (the pending setTimeouts, the
\* monitor's setInterval) are not touched.
updateSchedule(data) ==
  LET used == { t.id : t \in timers }
      onId == NewId(used)
      offId == NewId(used \cup { onId })
  IN  /\ SCHEDULE' = data
      /\ timers' = ClearIntervals(timers, intervals)
                     \cup { Interval(onId, "turnOn", onSchedule(SCHEDULE')),
                            Interval(offId, "turnOff", offSchedule(SCHEDULE')) }
      /\ intervals' = << onId, offId >>
      /\ UNCHANGED <<timeouts, monitorArmed>>

\* A schedule with every hour present.
Sched(onHours, offHours) ==
  [ h \in Hours |-> [ on |-> h \in onHours, off |-> h \in offHours ] ]

\* S with hour h missing.
Without(S, h) == [ k \in (DOMAIN S) \ { h } |-> S[k] ]

\* S with a key k added.
With(S, k, flags) == [ j \in (DOMAIN S) \cup { k } |-> IF j = k THEN flags ELSE S[j] ]

WellFormed(S) == DOMAIN S = Hours

\* The request bodies of PUT /schedule that are tried.
ValidBodies == { Sched(a, b) : a \in { {}, {6} }, b \in { {}, {8} } }

MalformedBodies ==
  { Without(Sched({6}, {8}), 17),
    With(Sched({6}, {8}), 24, [ on |-> TRUE, off |-> FALSE ]) }

Bodies == ValidBodies \cup MalformedBodies

\* PUT /schedule: update(req, res).  A timer cleared while its firing for
\* this hour was pending does not fire.
PutSchedule(bodies) ==
  /\ running
  /\ UNCHANGED sinkVars
  /\ \E data \in bodies :
       /\ updateSchedule(data)
       /\ requested' = data
  /\ due' = due \cap { t.id : t \in timers' }
  /\ day' = 0
  /\ lastOp' = [ Op("update", << "assign", "clear", "setInterval turnOn",
                                 "setInterval turnOff", "send ok" >>)
                   EXCEPT !.cancelled = { t \in timers \ timers' : t.id \in due },
                          !.same = (requested' = SCHEDULE) ]
  /\ UNCHANGED <<running, hour, MOISTURE, fired, taken, soilVars, pump, flowVars>>

\* PUT /schedule with a body that has the 24 hours for its keys.
Update == PutSchedule(ValidBodies)

\* PUT /schedule with a body that has not.
UpdateMalformed == PutSchedule(MalformedBodies)

\* GET /schedule: res.json({ data: SCHEDULE }).
GetSchedule ==
  /\ running
  /\ UNCHANGED sinkVars
  /\ lastOp' = [ Op("getSchedule", << "json" >>) EXCEPT !.data = SCHEDULE ]
  /\ UNCHANGED <<running, schedVars, clockVars, monitorVars, soilVars,
                 pumpVars, flowVars>>

\* The hours at which the run is observed: requests arrive in these hours.
\* They hold every hour that a tried body names.
ObservedHours == { 0, 6, 8 }

\* How many hours pass from hour a to the next time the clock shows b.
HoursUntil(a, b) == IF b > a THEN b - a ELSE b - a + HoursPerDay

\* The next hour after h that is observed or in which a live timer is due.
NextStop(h, live) ==
  LET stops == ObservedHours \cup ( UNION { t.hours : t \in live } \cap Hours )
  IN  CHOOSE n \in stops :
        \A m \in stops : HoursUntil(h, n) <= HoursUntil(h, m)

\* What later runs when the wall clock reaches hour h: every live timer with
\* h in its schedule.
DueAt(h, live) == { t.id : t \in { u \in live : h \in u.hours } }

\* The wall clock moves on to the next stop; in the hours passed over no
\* timer is due.  The timers due in an hour run before the hour is over, and
\* so do the pending timeouts (12 s at most, with stops an hour or more
\* apart).
HourTick ==
  /\ running
  /\ UNCHANGED sinkVars
  /\ due = {}
  /\ timeouts = << >>
  /\ hour' = NextStop(hour, timers)
  /\ hour' <= hour => day < MaxDays
  /\ day' = IF hour' <= hour THEN day + 1 ELSE day
  /\ due' = DueAt(hour', timers)
  /\ lastOp' = [ Op("hourTick", << >>) EXCEPT !.hour = hour' ]
  /\ UNCHANGED <<running, schedVars, monitorVars, soilVars, pumpVars,
                 flowVars>>

\* A timer created with turnOn firing once only: it is gone afterwards.
ScheduledOn_OneShot ==
  /\ running
  /\ CanLog
  /\ Logged
  /\ UNCHANGED <<config, texts>>
  /\ Len(timeouts) < MaxWindows
  /\ \E t \in timers :
       /\ t.id \in due
       /\ t.fn = "turnOn"
       /\ due' = due \ { t.id }
       /\ timers' = timers \ { t }
       /\ LET r == turnOn(timeouts)
          IN  /\ pump' = r.pump
              /\ timeouts' = r.timeouts
              /\ lastOp' = [ Op("scheduledOn", r.steps)
                               EXCEPT !.hour = hour, !.timer = t.id,
                                      !.call = r.call, !.age = 0 ]
  /\ UNCHANGED <<running, SCHEDULE, intervals, requested, hour, day, monitorVars,
                 soilVars, flowVars>>

\* A timer created with turnOn fires.
ScheduledOn ==
  /\ running
  /\ CanLog
  /\ Logged
  /\ UNCHANGED <<config, texts>>
  /\ Len(timeouts) < MaxWindows
  /\ \E t \in timers :
       /\ t.id \in due
       /\ t.fn = "turnOn"
       /\ due' = due \ { t.id }
       /\ LET r == turnOn(timeouts)
          IN  /\ pump' = r.pump
              /\ timeouts' = r.timeouts
              /\ lastOp' = [ Op("scheduledOn", r.steps)
                               EXCEPT !.hour = hour, !.timer = t.id,
                                      !.call = r.call, !.age = 0 ]
  /\ UNCHANGED <<running, schedVars, hour, day, monitorVars, soilVars, flowVars>>

\* A timer created with turnOff fires.
ScheduledOff ==
  /\ running
  /\ CanLog
  /\ Logged
  /\ UNCHANGED <<config, texts>>
  /\ Len(timeouts) < MaxWindows
  /\ \E t \in timers :
       /\ t.id \in due
       /\ t.fn = "turnOff"
       /\ due' = due \ { t.id }
       /\ LET r == turnOff(timeouts)
          IN  /\ pump' = r.pump
              /\ timeouts' = r.timeouts
              /\ lastOp' = [ Op("scheduledOff", r.steps)
                               EXCEPT !.hour = hour, !.timer = t.id,
                                      !.call = r.call, !.age = 0 ]
  /\ UNCHANGED <<running, schedVars, hour, day, monitorVars, soilVars, flowVars>>

\* ------------------------------------------------------------ pump failure

\* What a failing pump.write can do: throw, or hand back an error status
\* (which turnOn and turnOff do not look at).
FaultModes == { "throws", "status" }

\* turnOn()/turnOff() with pump.write(value) failing: the pin keeps its
\* value.  If the write throws, the exception leaves the function before
\* setTimeout; if it answers an error status, the function goes on.  Neither
\* path calls alert(), and nothing writes a second time.
turnFault(fn, value, mode, pending) ==
  LET check == IF fn = "turnOn" THEN "checkFlowOn" ELSE "checkFlowOff"
      said == IF fn = "turnOn" THEN "log on" ELSE "log off"
  IN  IF mode = "throws"
        THEN [ thrown |-> TRUE, call |-> NewCall(pending), timeouts |-> pending,
               steps |-> << said, "pump.write throws" >> ]
        ELSE [ thrown |-> FALSE, call |-> NewCall(pending),
               timeouts |-> Append(pending, Timeout(check, SettleTicks, NewCall(pending), 0)),
               steps |-> << said, "pump.write fails", "setTimeout " \o check >> ]

\* GET /on with the pump write failing: express catches what a route
\* handler throws and answers 500.
RouteOnFault ==
  /\ running
  /\ CanLog
  /\ Logged
  /\ UNCHANGED <<config, texts>>
  /\ Len(timeouts) < MaxWindows
  /\ \E mode \in FaultModes :
       LET r == turnFault("turnOn", 1, mode, timeouts)
       IN  /\ timeouts' = r.timeouts
           /\ lastOp' = [ Op("routeOnFault",
                             r.steps \o IF r.thrown THEN << "send 500" >> ELSE << "send" >>)
                            EXCEPT !.call = r.call, !.age = 0 ]
  /\ UNCHANGED <<running, schedVars, clockVars, monitorVars, soilVars, pump,
                 flowVars>>

\* GET /off with the pump write failing.
RouteOffFault ==
  /\ running
  /\ CanLog
  /\ Logged
  /\ UNCHANGED <<config, texts>>
  /\ Len(timeouts) < MaxWindows
  /\ \E mode \in FaultModes :
       LET r == turnFault("turnOff", 0, mode, timeouts)
       IN  /\ timeouts' = r.timeouts
           /\ lastOp' = [ Op("routeOffFault",
                             r.steps \o IF r.thrown THEN << "send 500" >> ELSE << "send" >>)
                            EXCEPT !.call = r.call, !.age = 0 ]
  /\ UNCHANGED <<running, schedVars, clockVars, monitorVars, soilVars, pump,
                 flowVars>>

\* A timer created with turnOn fires and the pump write fails: what a timer
\* callback throws nobody catches, and node ends the process.
ScheduledOnFault ==
  /\ running
  /\ CanLog
  /\ Logged
  /\ UNCHANGED <<config, texts>>
  /\ Len(timeouts) < MaxWindows
  /\ \E t \in timers, mode \in FaultModes :
       /\ t.id \in due
       /\ t.fn = "turnOn"
       /\ due' = due \ { t.id }
       /\ LET r == turnFault("turnOn", 1, mode, timeouts)
          IN  /\ timeouts' = r.timeouts
              /\ running' = ~ r.thrown
              /\ lastOp' = [ Op("scheduledOnFault",
                                r.steps \o IF r.thrown THEN << "uncaught exception" >>
                                                       ELSE << >>)
                               EXCEPT !.hour = hour, !.timer = t.id,
                                      !.call = r.call, !.age = 0 ]
  /\ UNCHANGED <<schedVars, hour, day, monitorVars, soilVars, pump, flowVars>>

\* A timer created with turnOff fires and the pump write fails.
ScheduledOffFault ==
  /\ running
  /\ CanLog
  /\ Logged
  /\ UNCHANGED <<config, texts>>
  /\ Len(timeouts) < MaxWindows
  /\ \E t \in timers, mode \in FaultModes :
       /\ t.id \in due
       /\ t.fn = "turnOff"
       /\ due' = due \ { t.id }
       /\ LET r == turnFault("turnOff", 0, mode, timeouts)
          IN  /\ timeouts' = r.timeouts
              /\ running' = ~ r.thrown
              /\ lastOp' = [ Op("scheduledOffFault",
                                r.steps \o IF r.thrown THEN << "uncaught exception" >>
                                                       ELSE << >>)
                               EXCEPT !.hour = hour, !.timer = t.id,
                                      !.call = r.call, !.age = 0 ]
  /\ UNCHANGED <<schedVars, hour, day, monitorVars, soilVars, pump, flowVars>>

\* ------------------------------------------------------------ log server and twilio

\* How a request of log() can end: answered 2xx; answered with an error
\* status (err set, res given); not answered at all, the server being out
\* of reach (err set, no res).
PutOutcomes == { "ok", "status", "unreachable" }

\* callback(err, res) of log(): if (err) { return console.error("err:",
\* res.text); }.  With no response res is undefined, res.text throws a
\* TypeError in the callback, nobody catches it, and node ends the process.
LogCallback ==
  /\ running
  /\ puts > 0
  /\ puts' = puts - 1
  /\ \E outcome \in PutOutcomes :
       /\ running' = (outcome # "unreachable")
       /\ lastOp' = CASE outcome = "ok" -> Op("logDelivered", << "console.log" >>)
                      [] outcome = "status" -> Op("logFailed", << "console.error" >>)
                      [] OTHER -> Op("logFailed", << "read res.text", "uncaught exception" >>)
  /\ UNCHANGED <<schedVars, clockVars, monitorVars, soilVars, pumpVars, flowVars,
                 config, texts>>

\* The callback of twilio.sendMessage in alert(): if (err) { return
\* console.error("err:", err); }.
SmsCallback ==
  /\ running
  /\ texts > 0
  /\ texts' = texts - 1
  /\ \E err \in BOOLEAN :
       lastOp' = IF err THEN Op("smsFailed", << "console.error" >>)
                        ELSE Op("smsSent", << "console.log" >>)
  /\ UNCHANGED <<running, schedVars, clockVars, monitorVars, soilVars, pumpVars,
                 flowVars, config, puts>>

\* ------------------------------------------------------------ specifications

NextMonitor == SoilChange \/ MonitorTick \/ MonitorThrow \/ Index

SpecMonitor == Init /\ [][NextMonitor]_vars

NextVerify ==
  \/ RouteOn \/ RouteOff \/ Tick
  \/ CheckFlowOn \/ CheckFlowOff \/ FlowOnTimeout \/ FlowOffTimeout
  \/ FlowChange

SpecVerify == Init /\ [][NextVerify]_vars

NextSchedule ==
  \/ Update \/ UpdateMalformed \/ GetSchedule \/ HourTick \/ ScheduledOn \/ ScheduledOff
  \/ Tick \/ CheckFlowOn \/ CheckFlowOff \/ FlowOnTimeout \/ FlowOffTimeout

SpecSchedule == Init /\ [][NextSchedule]_vars

NextOverride ==
  \/ Update \/ HourTick \/ ScheduledOn \/ ScheduledOff
  \/ RouteOn \/ RouteOff \/ Tick
  \/ CheckFlowOn \/ CheckFlowOff \/ FlowOnTimeout \/ FlowOffTimeout

SpecOverride == Init /\ [][NextOverride]_vars

Next ==
  \/ Update \/ UpdateMalformed \/ GetSchedule \/ HourTick \/ ScheduledOn \/ ScheduledOff
  \/ ScheduledOnFault \/ ScheduledOffFault \/ RouteOnFault \/ RouteOffFault
  \/ LogCallback \/ SmsCallback
  \/ RouteOn \/ RouteOff \/ Tick
  \/ CheckFlowOn \/ CheckFlowOff \/ FlowOnTimeout \/ FlowOffTimeout
  \/ FlowChange
  \/ SoilChange \/ MonitorTick \/ MonitorThrow \/ Index

Spec == InitNotify /\ [][Next]_vars

NextFault ==
  \/ Update \/ HourTick \/ ScheduledOn \/ ScheduledOff
  \/ ScheduledOnFault \/ ScheduledOffFault \/ RouteOnFault \/ RouteOffFault
  \/ Tick \/ CheckFlowOn \/ CheckFlowOff \/ FlowOnTimeout \/ FlowOffTimeout

SpecFault == Init /\ [][NextFault]_vars

NextWindows ==
  \/ RouteOn \/ RouteOff \/ Tick
  \/ CheckFlowOn \/ CheckFlowOff \/ FlowOnTimeout \/ FlowOffTimeout

\* The manual calls and their windows, with time passing and due timeouts
\* running: node runs a due timeout as soon as the handler before it
\* returns.
SpecVerifyLive ==
  /\ Init
  /\ [][NextWindows]_vars
  /\ WF_vars(Tick)
  /\ WF_vars(CheckFlowOn) /\ WF_vars(CheckFlowOff)
  /\ WF_vars(FlowOnTimeout) /\ WF_vars(FlowOffTimeout)

NextNotify ==
  \/ MonitorTick \/ RouteOn \/ Tick \/ CheckFlowOn \/ FlowOnTimeout
  \/ LogCallback \/ SmsCallback

SpecNotify == InitNotify /\ [][NextNotify]_vars

NextPump ==
  \/ Update \/ HourTick \/ ScheduledOn \/ ScheduledOff
  \/ Tick \/ CheckFlowOn \/ CheckFlowOff \/ FlowOnTimeout \/ FlowOffTimeout
  \/ MonitorTick

SpecPump == Init /\ [][NextPump]_vars

NextFrame ==
  \/ Update \/ RouteOn \/ Tick \/ CheckFlowOn \/ FlowOnTimeout
  \/ MonitorTick

SpecFrame == Init /\ [][NextFrame]_vars

\* ------------------------------------------------------------ properties

\* The last k elements of s.
LastN(s, k) == SubSeq(s, Len(s) - k + 1, Len(s))

\* C1: after n monitor ticks the moisture list holds exactly min(n, 20)
\* samples, they are the most recent min(n, 20) samples taken, in the order
\* taken, and a page served shows that list, so never more than 20 rows.
C1_BoundedHistory ==
  LET n == Len(taken)
  IN  /\ Len(MOISTURE) = Min(n, 20)
      /\ MOISTURE = LastN(taken, Min(n, 20))
      /\ lastOp.op = "index" =>
           /\ Len(lastOp.data) <= 20
           /\ lastOp.data = [ i \in 1 .. Min(n, 20) |->
                                << taken[n - Min(n, 20) + i].time,
                                   taken[n - Min(n, 20) + i].value >> ]

\* A page is served after more than 20 ticks, with both readings in the list.
C1_Witness ==
  /\ lastOp.op = "index"
  /\ Len(taken) > 20
  /\ taken[1] # MOISTURE[1]
  /\ \E i, j \in DOMAIN MOISTURE : MOISTURE[i].value # MOISTURE[j].value

\* C10: a monitor tick whose sensor read throws is surfaced as a
\* notification, appends no sample, and leaves the monitor loop and the
\* process running.
C10_SensorFailureSurvived ==
  lastOp.op = "monitorThrow" =>
    /\ running
    /\ monitorArmed
    /\ \E i \in DOMAIN lastOp.steps : lastOp.steps[i] = "log moisture"
    /\ Len(taken) < fired

\* C5: the timeout of a flow check raises an alert exactly when the pump was
\* turned on and the rate read is below 1.0, or the pump was turned off and
\* the rate read is at least 0.5 (rates in tenths); it raises at most one,
\* and nothing else raises any.
C5_AlertRule ==
  /\ lastOp.alerts \in { 0, 1 }
  /\ lastOp.op = "flowOnTimeout" =>
       /\ lastOp.rate = flowRate
       /\ (lastOp.alerts = 1) <=> (lastOp.rate < 10)
  /\ lastOp.op = "flowOffTimeout" =>
       /\ lastOp.rate = flowRate
       /\ (lastOp.alerts = 1) <=> (lastOp.rate >= 5)
  /\ lastOp.op \notin { "flowOnTimeout", "flowOffTimeout" } => lastOp.alerts = 0

\* The pump was turned off and the rate read is 0.6, between the thresholds:
\* an alert.
C5_Witness ==
  /\ lastOp.op = "flowOffTimeout"
  /\ lastOp.rate = 6
  /\ lastOp.alerts = 1

\* The hours of 0..23 that schedule S turns the water on at, and off at.
OnHoursOf(S) == { h \in Hours \cap DOMAIN S : S[h].on }
OffHoursOf(S) == { h \in Hours \cap DOMAIN S : S[h].off }

\* The hours of the day at which a live timer created with fn fires.
FiringHours(fn) ==
  { h \in Hours : \E t \in timers : t.fn = fn /\ t.id \in DueAt(h, timers) }

\* C2: an update with a malformed body (an hour of 0..23 missing, or a key
\* outside 0..23) is rejected: the schedule, the live timers and the handles
\* kept are those of before the call.
C2_MalformedRejected ==
  [][ (lastOp'.op = "update" /\ ~ WellFormed(requested')) =>
        ( /\ SCHEDULE' = SCHEDULE
          /\ timers' = timers
          /\ intervals' = intervals ) ]_vars

\* C3: the live recurring timers are exactly the pair that the most recent
\* update installed, built from the current schedule; a timer that fires is
\* one of that pair and fires at an hour the current schedule names.
C3_OnlyLatestTimersLive ==
  /\ { t.id : t \in timers } = Range(intervals)
  /\ due \subseteq Range(intervals)
  /\ intervals # << >> =>
       /\ Cardinality({ t \in timers : t.fn = "turnOn" }) = 1
       /\ Cardinality({ t \in timers : t.fn = "turnOff" }) = 1
       /\ Cardinality(timers) = 2
  /\ lastOp.op = "scheduledOn" =>
       /\ lastOp.timer \in Range(intervals)
       /\ lastOp.hour \in OnHoursOf(SCHEDULE)
  /\ lastOp.op = "scheduledOff" =>
       /\ lastOp.timer \in Range(intervals)
       /\ lastOp.hour \in OffHoursOf(SCHEDULE)

\* At hour 6 an update has just replaced a schedule whose on-timer was due to
\* fire for hour 6 by one with no on-hour at 6: nothing is due any more.
C3_Witness ==
  /\ lastOp.op = "update"
  /\ hour = 6
  /\ \E t \in lastOp.cancelled : t.fn = "turnOn" /\ 6 \in t.hours
  /\ 6 \notin OnHoursOf(SCHEDULE)
  /\ due = {}

\* C4: after an update with a well-formed body S the schedule is S, and
\* GET /schedule answers S, whatever was installed before.
C4_RoundTrip ==
  /\ (lastOp.op = "update" /\ WellFormed(requested)) => SCHEDULE = requested
  /\ (lastOp.op = "getSchedule" /\ WellFormed(requested)) =>
       /\ lastOp.data = requested
       /\ \A h \in Hours : /\ lastOp.data[h].on = requested[h].on
                           /\ lastOp.data[h].off = requested[h].off

\* GET /schedule answers the 6-on 8-off schedule, installed over another one.
C4_Witness ==
  /\ lastOp.op = "getSchedule"
  /\ requested = Sched({6}, {8})
  /\ lastOp.data = Sched({6}, {8})
  /\ intervals[1] > 2

C7_TriggerHours ==
  /\ intervals # << >> =>
       /\ FiringHours("turnOn") = OnHoursOf(SCHEDULE)
       /\ FiringHours("turnOff") = OffHoursOf(SCHEDULE)
  /\ lastOp.op = "hourTick" =>
       \A t \in timers :
         t.id \in due <=> hour \in ( IF t.fn = "turnOn" THEN OnHoursOf(SCHEDULE)
                                                       ELSE OffHoursOf(SCHEDULE) )
  /\ lastOp.op = "scheduledOn" =>
       /\ lastOp.hour = hour
       /\ hour \in OnHoursOf(SCHEDULE)
       /\ pump = 1
       /\ "pump.write 1" \in Range(lastOp.steps)
       /\ "pump.write 0" \notin Range(lastOp.steps)
  /\ lastOp.op = "scheduledOff" =>
       /\ lastOp.hour = hour
       /\ hour \in OffHoursOf(SCHEDULE)
       /\ pump = 0
       /\ "pump.write 0" \in Range(lastOp.steps)
       /\ "pump.write 1" \notin Range(lastOp.steps)
  /\ requested = Sched({6}, {8}) =>
       /\ FiringHours("turnOn") = {6}
       /\ FiringHours("turnOff") = {8}

\* Under 6-on 8-off the off-timer has just fired at hour 8.
C7_Witness ==
  /\ requested = Sched({6}, {8})
  /\ lastOp.op = "scheduledOff"
  /\ lastOp.hour = 8
  /\ pump = 0

\* C8: GET /on does what a firing on-timer does, and GET /off what a firing
\* off-timer does: the pump is commanded, the on/off event is logged and a
\* flow check for that direction is armed with the settle delay, whatever
\* the schedule.
C8_ManualAsScheduled ==
  /\ lastOp.op \in { "routeOn", "scheduledOn" } =>
       /\ pump = 1
       /\ Range(lastOp.steps) \ { "send" }
            = { "log on", "pump.write 1", "setTimeout checkFlowOn" }
       /\ timeouts # << >>
       /\ timeouts[Len(timeouts)].fn = "checkFlowOn"
       /\ timeouts[Len(timeouts)].left * TickMs = 10000
  /\ lastOp.op \in { "routeOff", "scheduledOff" } =>
       /\ pump = 0
       /\ Range(lastOp.steps) \ { "send" }
            = { "log off", "pump.write 0", "setTimeout checkFlowOff" }
       /\ timeouts # << >>
       /\ timeouts[Len(timeouts)].fn = "checkFlowOff"
       /\ timeouts[Len(timeouts)].left * TickMs = 10000

\* GET /on has just run under an installed schedule with no on-hour.
C8_Witness ==
  /\ lastOp.op = "routeOn"
  /\ intervals # << >>
  /\ OnHoursOf(SCHEDULE) = {}
  /\ timeouts[Len(timeouts)].fn = "checkFlowOn"

\* C9: an update leaves every pending flow check pending, with the time it
\* has left, and leaves the monitor's interval armed and the process
\* running; a pending flow check goes away only by running (time does not
\* pass while one is due), and the monitor's interval is never disarmed.
C9_UpdateLeavesChecksAndMonitor ==
  [][ /\ lastOp'.op = "update" =>
           /\ timeouts' = timeouts
           /\ monitorArmed' /\ running'
      /\ Len(timeouts') < Len(timeouts) =>
           lastOp'.op \in { "flowOnTimeout", "flowOffTimeout" }
      /\ lastOp'.op = "tick" => \A i \in DOMAIN timeouts : timeouts[i].left > 0
      /\ lastOp'.op \in { "checkFlowOn", "checkFlowOff",
                          "flowOnTimeout", "flowOffTimeout" } =>
           \E i \in DOMAIN timeouts : timeouts[i].left = 0
      /\ monitorArmed' ]_vars

\* A second update has just run with the timeout of a flow check due, after
\* monitor ticks.
C9_Witness ==
  /\ lastOp.op = "update"
  /\ intervals[1] > 2
  /\ timeouts # << >>
  /\ timeouts[1].fn = "flowOnTimeout"
  /\ timeouts[1].left = 0
  /\ fired > 0

\* The handlers that call turnOn or turnOff with the pump write failing.
FaultOps == { "routeOnFault", "routeOffFault", "scheduledOnFault", "scheduledOffFault" }

\* C11: when the pump write fails in turnOn or turnOff, the handler raises
\* an alert for it, does not write again, and leaves the flow check of that
\* call armed with the settle delay, the process running.
C11_FailureSurfaced ==
  lastOp.op \in FaultOps =>
    /\ running
    /\ "alert" \in Range(lastOp.steps)
    /\ \E i \in DOMAIN timeouts :
         /\ timeouts[i].call = lastOp.call
         /\ timeouts[i].left = SettleTicks

\* Where step x stands in the sequence of steps st (0 if nowhere).
Position(st, x) ==
  IF \E i \in DOMAIN st : st[i] = x
    THEN CHOOSE i \in DOMAIN st : st[i] = x
    ELSE 0

\* The handlers that call turnOn, and those that call turnOff.
OnOps == { "routeOn", "scheduledOn" }
OffOps == { "routeOff", "scheduledOff" }

\* C12: in every turnOn and turnOff call the pump is written first, the
\* on/off event is logged second, and the flow check is armed third.
C12_CommandBeforeNotification ==
  /\ lastOp.op \in OnOps =>
       /\ 0 < Position(lastOp.steps, "pump.write 1")
       /\ Position(lastOp.steps, "pump.write 1") < Position(lastOp.steps, "log on")
       /\ Position(lastOp.steps, "log on") < Position(lastOp.steps, "setTimeout checkFlowOn")
  /\ lastOp.op \in OffOps =>
       /\ 0 < Position(lastOp.steps, "pump.write 0")
       /\ Position(lastOp.steps, "pump.write 0") < Position(lastOp.steps, "log off")
       /\ Position(lastOp.steps, "log off") < Position(lastOp.steps, "setTimeout checkFlowOff")

\* The state a pending timeout expects of the pump: that of the call it
\* descends from.
Expected(fn) == IF fn \in { "checkFlowOn", "flowOnTimeout" } THEN "on" ELSE "off"

\* The windows in flight: the calls whose decision is still to come, each
\* with the state it expects.
Windows(pending) ==
  { << pending[i].call, Expected(pending[i].fn) >> : i \in DOMAIN pending }

DecisionOps == { "flowOnTimeout", "flowOffTimeout" }

\* C13: every turnOn/turnOff call opens a window of its own, also while
\* others are in flight; a window leaves only by its decision, which is made
\* once, with the threshold of the call that opened it, the windows behind
\* it moving up one place; and every window in flight moves up until it
\* comes to its decision.
C13_OneDecisionPerCall ==
  /\ [][ LET before == Windows(timeouts)
             after == Windows(timeouts')
             dir == IF lastOp'.op \in OnOps \cup { "flowOnTimeout" } THEN "on" ELSE "off"
         IN  /\ Cardinality(before) = Len(timeouts)
             /\ lastOp'.op \in OnOps \cup OffOps =>
                  /\ << lastOp'.call, "on" >> \notin before
                  /\ << lastOp'.call, "off" >> \notin before
                  /\ after = before \cup { << lastOp'.call, dir >> }
             /\ lastOp'.op \in DecisionOps =>
                  /\ << lastOp'.call, dir >> \in before
                  /\ after = { << IF w[1] > lastOp'.call THEN w[1] - 1 ELSE w[1], w[2] >> :
                                 w \in before \ { << lastOp'.call, dir >> } }
                  /\ Cardinality(after) = Cardinality(before) - 1
                  /\ lastOp'.alerts = 1 <=>
                       IF dir = "on" THEN lastOp'.rate < OnThreshold
                                     ELSE lastOp'.rate >= OffThreshold
             /\ lastOp'.op \notin OnOps \cup OffOps \cup DecisionOps =>
                  after = before ]_vars
  /\ \A c \in 1 .. MaxWindows :
       /\ (<< c, "on" >> \in Windows(timeouts))
            ~> \/ lastOp.op = "flowOnTimeout" /\ lastOp.call = c
               \/ c > 1 /\ << c - 1, "on" >> \in Windows(timeouts)
       /\ (<< c, "off" >> \in Windows(timeouts))
            ~> \/ lastOp.op = "flowOffTimeout" /\ lastOp.call = c
               \/ c > 1 /\ << c - 1, "off" >> \in Windows(timeouts)

\* The window of a GET /on has come to its decision while that of a GET /off
\* made during its settle delay is still in flight.
C13_Witness ==
  /\ lastOp.op = "flowOnTimeout"
  /\ lastOp.call = 1
  /\ Windows(timeouts) = { << 1, "off" >> }
  /\ timeouts[1].fn = "flowOffTimeout"
  /\ timeouts[1].age = SettleTicks + WindowTicks

\* C14: when a window reads the rate for its decision, the counter was last
\* cleared by that window's own flow check: no other window's clearing lies
\* between a window's clearing and its reading.
C14_OwnResetBeforeRead ==
  lastOp.op \in DecisionOps => lastOp.own

\* The timeouts of pending whose sample interval is running.
Sampling(pending) ==
  { pending[i] : i \in { j \in DOMAIN pending :
                           pending[j].fn \in { "flowOnTimeout", "flowOffTimeout" } } }

\* C15: a flow check that clears the counter while another window is
\* sampling leaves that window in flight, its deadline as it was; the window
\* then decides at its own deadline on the rate the counter shows, which is
\* what has flowed since the later clearing; and between a clearing and a
\* reading only the flow itself changes the rate.
C15_LaterResetSupersedes ==
  [][ /\ (lastOp'.op \in { "checkFlowOn", "checkFlowOff" } /\ Sampling(timeouts) # {}) =>
           /\ { << t.call, t.fn, t.left, t.age >> : t \in Sampling(timeouts) }
                \subseteq { << t.call, t.fn, t.left, t.age >> : t \in Sampling(timeouts') }
           /\ flowRate' = 0
      /\ (lastOp'.op \in DecisionOps /\ ~ lastOp'.own) =>
           /\ lastOp'.age = SettleTicks + WindowTicks
           /\ lastOp'.rate = flowRate
           /\ lastOp'.alerts = 1 <=>
                IF lastOp'.op = "flowOnTimeout" THEN flowRate < OnThreshold
                                                ELSE flowRate >= OffThreshold
      /\ flowRate' # flowRate =>
           lastOp'.op \in { "flowChange", "checkFlowOn", "checkFlowOff" } ]_vars

\* The window of a GET /on has decided, without an alert, on water that
\* flowed after the flow check of a later GET /off had cleared the counter
\* inside its sample interval.
C15_Witness ==
  /\ lastOp.op = "flowOnTimeout"
  /\ lastOp.call = 1
  /\ ~ lastOp.own
  /\ lastOp.age = SettleTicks + WindowTicks
  /\ lastOp.rate = MaxFlow
  /\ lastOp.alerts = 0
  /\ \E i \in DOMAIN timeouts : timeouts[i].own /\ timeouts[i].fn = "flowOffTimeout"

\* C16: the flow check of a call clears the counter when the settle delay
\* has passed since the call (10 s), the decision is taken when the sample
\* window has passed after that (12 s since the call), an alert is raised
\* only in a decision, and no window is in flight beyond its time.
C16_DecisionAtDeadline ==
  /\ lastOp.op \in { "checkFlowOn", "checkFlowOff" } =>
       lastOp.age * TickMs = SettleDelayMs
  /\ lastOp.op \in DecisionOps =>
       lastOp.age * TickMs = SettleDelayMs + SampleWindowMs
  /\ lastOp.alerts = 1 => lastOp.op \in DecisionOps
  /\ \A i \in DOMAIN timeouts :
       /\ timeouts[i].fn \in { "checkFlowOn", "checkFlowOff" } =>
            /\ timeouts[i].age * TickMs <= SettleDelayMs
            /\ timeouts[i].age * TickMs < SettleDelayMs => timeouts[i].left > 0
       /\ timeouts[i].fn \in { "flowOnTimeout", "flowOffTimeout" } =>
            /\ timeouts[i].age * TickMs >= SettleDelayMs
            /\ timeouts[i].age * TickMs <= SettleDelayMs + SampleWindowMs
            /\ timeouts[i].age * TickMs < SettleDelayMs + SampleWindowMs =>
                 timeouts[i].left > 0

\* The window of a turnOff has raised its alert, 12 s after the call.
C16_Witness ==
  /\ lastOp.op = "flowOffTimeout"
  /\ lastOp.alerts = 1
  /\ lastOp.age = SettleTicks + WindowTicks
  /\ timeouts = << >>

\* C17: every update, also one whose body is the schedule in force, clears
\* all the timers that were live and installs a new pair: no timer live
\* after the call was live before it, and the handles kept are new ones.
C17_AlwaysReinstalls ==
  [][ lastOp'.op = "update" =>
        /\ { t.id : t \in timers } \cap { t.id : t \in timers' } = {}
        /\ Range(intervals) \cap Range(intervals') = {}
        /\ { t.id : t \in timers' } = Range(intervals')
        /\ { t.fn : t \in timers' } = { "turnOn", "turnOff" }
        /\ Cardinality(timers') = 2 ]_vars

\* An update has run whose body was the 6-on 8-off schedule already in
\* force, with its timers live.
C17_Witness ==
  /\ lastOp.op = "update"
  /\ lastOp.same
  /\ requested = Sched({6}, {8})
  /\ Cardinality(timers) = 2

\* C18: a firing leaves its timer live; every time the clock reaches an hour,
\* on whatever day, each live timer with that hour becomes due; and a timer
\* that is due fires (turnOn for an on-timer, turnOff for an off-timer)
\* before the clock moves on, unless an update clears it.
C18_RecursDaily ==
  [][ /\ lastOp'.op \in { "scheduledOn", "scheduledOff" } =>
           /\ timers' = timers
           /\ intervals' = intervals
           /\ SCHEDULE' = SCHEDULE
      /\ lastOp'.op = "hourTick" =>
           /\ due = {}
           /\ due' = { t.id : t \in { u \in timers : hour' \in u.hours } }
      /\ \A t \in timers :
           (t.id \in due /\ t.id \notin due') =>
             \/ lastOp'.op = "update"
             \/ /\ lastOp'.op = (IF t.fn = "turnOn" THEN "scheduledOn" ELSE "scheduledOff")
                /\ lastOp'.timer = t.id
                /\ lastOp'.hour = hour
                /\ hour \in t.hours ]_vars

\* The on-timer of the 6-on 8-off schedule has fired at 6 again, a day or
\* more after the update that installed it.
C18_Witness ==
  /\ lastOp.op = "scheduledOn"
  /\ lastOp.hour = 6
  /\ day = MaxDays
  /\ requested = Sched({6}, {8})

\* C19: when the delivery of a log event or of an alert fails, the callback
\* writes the failure to the console and nothing else happens: the process
\* keeps running.
C19_DeliveryFailureSwallowed ==
  lastOp.op \in { "logFailed", "smsFailed" } =>
    /\ running
    /\ lastOp.steps = << "console.error" >>

\* C20: a step changes the pump output only if it is a turnOn or turnOff
\* call, which leaves it at 1 or at 0; the flow checks, their decisions with
\* or without an alert, an update and a monitor tick leave it as it is.  So
\* the output always is that of the latest call.
C20_OnlyCallsMovePump ==
  [][ /\ lastOp'.op \in OnOps => pump' = 1
      /\ lastOp'.op \in OffOps => pump' = 0
      /\ lastOp'.op \notin OnOps \cup OffOps => pump' = pump
      /\ lastOp'.op \in DecisionOps \cup { "checkFlowOn", "checkFlowOff", "update",
                                           "monitor" } =>
           /\ pump' = pump
           /\ \A x \in Range(lastOp'.steps) : x \notin { "pump.write 0", "pump.write 1" } ]_vars

\* The window of a scheduled turnOn has raised its alert and the pump is
\* still on, with the schedule that turned it on in force.
C20_Witness ==
  /\ lastOp.op = "flowOnTimeout"
  /\ lastOp.alerts = 1
  /\ pump = 1
  /\ fired > 0
  /\ requested = Sched({6}, {})

====
